---- MODULE Spec2Model ----
(***************************************************************************)
(* Model of the agent-side BGP control plane controller                    *)
(* (pkg/bgpv1/agent/controller.go): the Signaler, the three tasks started  *)
(* by Controller.Start, the control loop Controller.Run, PolicySelection   *)
(* and Controller.Reconcile; and of the hubble metrics wrappers            *)
(* CounterVec / HistogramVec (pkg/hubble/metrics/util) that drop data      *)
(* series not used within a TTL.                                           *)
(***************************************************************************)
EXTENDS Integers, Sequences, FiniteSets, TLC

VARIABLES
    pool,       \* names of the tasks submitted to c.workerpool
    pc,         \* position of every task of the pool
    loc,        \* local variables of Controller.Run / Reconcile, per task
    Sig,        \* number of tokens buffered in Signaler.Sig
    burst,      \* Signaler.Event calls since the last receive from Sig.Sig
    ctxDone,    \* the context handed to the tasks is cancelled
    store,      \* CiliumBGPPeeringPolicy objects in the policy informer's cache
    node,       \* the local node object in the node informer's cache
    life,       \* what NewController returned and registered, and Stop's progress
    vec,        \* a CounterVec / HistogramVec: ttl, cache, gcTicker, exported series
    now,        \* what time.Now() returns
    last        \* time of the latest WithLabelValues call, per label values

agent == <<pool, pc, loc, Sig, burst, ctxDone, store, node, life>>

hubble == <<vec, now, last>>

vars == <<pool, pc, loc, Sig, burst, ctxDone, store, node, life, vec, now, last>>

----------------------------------------------------------------------------
(* Bounds *)

\* burst saturates here: the counter only distinguishes 0, 1, ... MaxBurst-or-more
MaxBurst == 2

\* the clock stops here
MaxNow == 4

----------------------------------------------------------------------------
(* Values *)

\* capacity of the channel made by NewSignaler
SigCap == 1

NoPolicy == "nil"

\* a map[string]string is the set of its <<key, value>> entries
NoLabels == {}
Edge     == { <<"role", "edge">> }
EdgeA    == { <<"role", "edge">>, <<"zone", "a">> }

\* Spec.NodeSelector of the policy objects that may exist in the cluster:
\* valid is FALSE when the selector does not convert to a label selector
NodeSelector(p) ==
    CASE p = "edge"   -> [valid |-> TRUE,  matchLabels |-> Edge]
      [] p = "edge-a" -> [valid |-> TRUE,  matchLabels |-> EdgeA]
      [] p = "bad"    -> [valid |-> FALSE, matchLabels |-> {}]

PolicyNames == {"edge", "edge-a", "bad"}

\* raw node annotations: <<virtual router ASN, attribute, value>>
NoAnnotations  == {}
GoodAnnotation == { <<"65001", "local-port", "179">> }
BadAnnotation  == { <<"65001", "local-port", "x">> }

NodeObject(l, a, c) == <<[labels |-> l, annotations |-> a, podCIDRs |-> c]>>

\* the node object is absent from the cache (<<>>) or present with its fields
NodeObjects ==
    { <<>>,
      NodeObject(NoLabels, NoAnnotations,  <<"10.0.1.0/24">>),
      NodeObject(Edge,     NoAnnotations,  <<"10.0.1.0/24">>),
      NodeObject(Edge,     GoodAnnotation, <<"10.0.1.0/24", "10.0.2.0/24">>),
      NodeObject(Edge,     BadAnnotation,  <<"10.0.1.0/24">>),
      NodeObject(EdgeA,    GoodAnnotation, <<"10.0.1.0/24">>) }

\* the pairs of addresses nodeaddr.GetIPv4 / GetIPv6 may report
Addrs ==
    { [IPv4 |-> "192.0.2.5", IPv6 |-> ""],
      [IPv4 |-> "192.0.2.6", IPv6 |-> "2001:db8::6"] }

----------------------------------------------------------------------------
(* Pure functions *)

\* a selector that fails to convert matches every label set
SelectorMatchesInvalidAll(p, labels) ==
    \/ ~NodeSelector(p).valid
    \/ NodeSelector(p).matchLabels \subseteq labels

\* slimmetav1.LabelSelectorAsSelector followed by Selector.Matches: a selector
\* that fails to convert matches nothing
SelectorMatches(p, labels) ==
    /\ NodeSelector(p).valid
    /\ NodeSelector(p).matchLabels \subseteq labels

\* the loop of PolicySelection over policies[i..], selected so far given
RECURSIVE SelectFrom(_, _, _, _)
SelectFrom(labels, policies, i, selected) ==
    IF i > Len(policies)
    THEN [policy |-> selected, err |-> "nil"]
    ELSE IF SelectorMatches(policies[i], labels)
         THEN IF selected # NoPolicy
              THEN [policy |-> NoPolicy, err |-> "ErrMultiplePolicies"]
              ELSE SelectFrom(labels, policies, i + 1, policies[i])
         ELSE SelectFrom(labels, policies, i + 1, selected)

\* first match wins, later matches are not counted
PolicySelectionFirstMatch(labels, policies) ==
    LET M == { i \in 1..Len(policies) : SelectorMatches(policies[i], labels) } IN
    IF M = {}
    THEN [policy |-> NoPolicy, err |-> "nil"]
    ELSE [policy |-> policies[CHOOSE i \in M : \A j \in M : i <= j], err |-> "nil"]

PolicySelection(labels, policies) == SelectFrom(labels, policies, 1, NoPolicy)

\* the numeric attribute values NewAnnotationMap accepts
ParseUint(s) ==
    CASE s = "179"  -> <<179>>
      [] s = "1790" -> <<1790>>
      [] OTHER      -> <<>>

\* NewAnnotationMap: every annotation parses or the whole map is refused
NewAnnotationMap(annotations) ==
    IF \E a \in annotations : ParseUint(a[3]) = <<>>
    THEN [annoMap |-> {}, err |-> "ErrParse"]
    ELSE [annoMap |-> { [asn |-> a[1], attr |-> a[2], value |-> ParseUint(a[3])[1]] :
                          a \in annotations },
          err |-> "nil"]

\* all orders in which a lister may return the objects of a set
RECURSIVE Orders(_)
Orders(S) ==
    IF S = {} THEN { <<>> }
    ELSE UNION { { <<x>> \o o : o \in Orders(S \ {x}) } : x \in S }

----------------------------------------------------------------------------
(* CounterVec / HistogramVec: construction, WithLabelValues, gc *)

\* the ttl a wrapper is built with: none, or two clock units
TTLs == {0, 2}

\* label values handed to WithLabelValues
LabelTuples == { <<"a0", "a1">>, <<"b0", "b1">>, <<"b0|", "b1">>, <<"b0", "|b1">> }

\* cacheKey: every label value followed by "|"
RECURSIVE CacheKey(_)
CacheKey(lvs) ==
    IF lvs = <<>> THEN "" ELSE (Head(lvs) \o "|") \o CacheKey(Tail(lvs))

\* NewTTLCounterVecWithReconciliation / NewTTLHistogramVecWithReconciliation:
\* the ticker (and with it the gc goroutine) exists only for ttl > 0
NewTTLCounterVecWithReconciliation(ttl) ==
    [ttl |-> ttl, cache |-> <<>>, gcTicker |-> ttl > 0, series |-> {}]

\* a wrapper that records accesses also without a ttl
WithLabelValuesRecordAlways(v, lvs, t) ==
    [v EXCEPT !.cache = (CacheKey(lvs) :> [timestamp |-> t, labels |-> lvs]) @@ @,
              !.series = @ \cup {lvs}]

\* WithLabelValues: with a ttl, cache[cacheKey] = cacheRecord{time.Now(), lvs};
\* then the wrapped vector's WithLabelValues, which creates the series
WithLabelValues(v, lvs, t) ==
    [v EXCEPT !.cache = IF v.ttl > 0
                        THEN (CacheKey(lvs) :> [timestamp |-> t, labels |-> lvs]) @@ @
                        ELSE @,
              !.series = @ \cup {lvs}]

\* the cache keys gc finds with timestamp.Add(ttl).Before(time.Now())
Exceeded(v, t) == { k \in DOMAIN v.cache : v.cache[k].timestamp + v.ttl < t }

\* a gc that removes every series it finds
gcIgnoreTTL(v, t) ==
    [v EXCEPT !.cache = <<>>,
              !.series = @ \ { v.cache[k].labels : k \in DOMAIN v.cache }]

\* one pass of gc under the mutex: DeleteLabelValues and delete(cache, key)
\* for every record that exceeds the ttl
gc(v, t) ==
    [v EXCEPT !.cache = [k \in (DOMAIN v.cache) \ Exceeded(v, t) |-> v.cache[k]],
              !.series = @ \ { v.cache[k].labels : k \in Exceeded(v, t) }]

----------------------------------------------------------------------------
(* Backend calls *)

\* BGPMgr.ConfigurePeers(ctx, policy, state) and the error it returned;
\* state is a pointer, <<>> is nil
Call(policy, state, ret) == [policy |-> policy, state |-> state, ret |-> ret]

\* ConfigurePeers(ctx, nil, nil), which cannot fail
Withdrawal == Call(NoPolicy, <<>>, "nil")

----------------------------------------------------------------------------
(* Tasks *)

Pumps == {"policy-informer", "nodespecer"}

\* the control loop submitted twice
StartTasksTwoLoops == {"policy-informer", "nodespecer", "controller", "controller-2"}

\* the tasks Controller.Start submits
StartTasks == {"policy-informer", "nodespecer", "controller"}

IsLoop(t) == t \notin Pumps

Loops == { t \in pool : IsLoop(t) }

\* the locals of Run / Reconcile before a pass
NoLocals ==
    [policies |-> <<>>, labels |-> {}, policy |-> NoPolicy,
     annoMap |-> {}, podCIDRs |-> <<>>, calls |-> <<>>, err |-> "nil"]

\* positions inside Controller.Reconcile
ReconcilePcs == {"list", "labels", "select", "annotations", "podcidrs", "configure"}

----------------------------------------------------------------------------
(* Signaler *)

\* a Signaler built on a channel of size 2
EventSigQueue(s) == IF s < 2 THEN s + 1 ELSE s

\* a Signaler whose channel never fills
EventSigUnbounded(s) == s + 1

\* Signaler.Event: non-blocking send on Sig.Sig
EventSig(s) == IF s < SigCap THEN s + 1 ELSE s

Bump(b) == IF b < MaxBurst THEN b + 1 ELSE b

Event ==
    /\ Sig' = EventSig(Sig)
    /\ burst' = Bump(burst)

----------------------------------------------------------------------------
\* the IPAM modes of the daemon configuration; only the first two have a
\* nodeSpecer
IPAMModes == {"cluster-pool", "kubernetes", "eni"}

\* a constructor that appends the lifecycle hook before looking at the
\* configuration
NewControllerHookFirst(enabled, ipam) ==
    IF ~enabled
    THEN [controller |-> FALSE, err |-> "nil", hooks |-> {"bgp-cp"}]
    ELSE IF ipam \notin {"cluster-pool", "kubernetes"}
         THEN [controller |-> FALSE, err |-> "ErrIPAM", hooks |-> {"bgp-cp"}]
         ELSE [controller |-> TRUE, err |-> "nil", hooks |-> {"bgp-cp"}]

\* NewController: what it returns and the hooks it appends to the lifecycle
NewController(enabled, ipam) ==
    IF ~enabled
    THEN [controller |-> FALSE, err |-> "nil", hooks |-> {}]
    ELSE IF ipam \notin {"cluster-pool", "kubernetes"}
         THEN [controller |-> FALSE, err |-> "ErrIPAM", hooks |-> {}]
         ELSE [controller |-> TRUE, err |-> "nil", hooks |-> {"bgp-cp"}]

\* the lifecycle after construction; Stop has not been called
Constructed(enabled, ipam) ==
    LET c == NewController(enabled, ipam) IN
    [enabled |-> enabled, controller |-> c.controller, err |-> c.err,
     hooks |-> c.hooks, stop |-> "idle", closer |-> "idle", stopCtxDone |-> FALSE]

Init ==
    /\ pool = {}
    /\ pc = << >>
    /\ loc = << >>
    /\ Sig = 0
    /\ burst = 0
    /\ ctxDone = FALSE
    /\ store = {}
    /\ node \in NodeObjects
    /\ \E enabled \in BOOLEAN, ipam \in IPAMModes : life = Constructed(enabled, ipam)
    /\ vec = NewTTLCounterVecWithReconciliation(0)
    /\ now = 0
    /\ last = <<>>

\* Controller.Start, called by hive for a registered hook: the pool of three tasks
Start ==
    /\ "bgp-cp" \in life.hooks
    /\ pool = {}
    /\ pool' = StartTasks
    /\ pc' = [t \in StartTasks |-> IF IsLoop(t) THEN "init" ELSE "running"]
    /\ loc' = [t \in { u \in StartTasks : IsLoop(u) } |-> NoLocals]
    /\ UNCHANGED <<Sig, burst, ctxDone, store, node, life, hubble>>

\* the pool's context is cancelled (workerpool.Close, called by Stop)
Cancel ==
    /\ pool # {}
    /\ ~ctxDone
    /\ ctxDone' = TRUE
    /\ UNCHANGED <<pool, pc, loc, Sig, burst, store, node, life, hubble>>

\* one policy object is added (AddFunc), updated (UpdateFunc) or deleted
\* (DeleteFunc): the informer updates its cache and calls the handler
PolicyWatchEvent ==
    /\ "policy-informer" \in pool
    /\ pc["policy-informer"] = "running"
    /\ \E p \in PolicyNames :
          \/ p \notin store /\ store' = store \cup {p}
          \/ p \in store /\ store' = store
          \/ p \in store /\ store' = store \ {p}
    /\ Event
    /\ UNCHANGED <<pool, pc, loc, ctxDone, node, life, hubble>>

\* the local node object is added, updated or deleted
NodeWatchEvent ==
    /\ "nodespecer" \in pool
    /\ pc["nodespecer"] = "running"
    /\ \E n \in NodeObjects : node' = n
    /\ Event
    /\ UNCHANGED <<pool, pc, loc, ctxDone, store, life, hubble>>

\* policyInformer.Run(ctx.Done()) / NodeSpec.Run(ctx) return on cancellation
PumpStop(t) ==
    /\ t \in pool \cap Pumps
    /\ pc[t] = "running"
    /\ ctxDone
    /\ pc' = [pc EXCEPT ![t] = "done"]
    /\ UNCHANGED <<pool, loc, Sig, burst, ctxDone, store, node, life, hubble>>

----------------------------------------------------------------------------
(* Controller.Reconcile, one operator per step: each takes the locals (and  *)
(* what the step reads) and gives the next position and the locals          *)

Go(p, l) == [pc |-> p, loc |-> l]

\* return err: back in Run, at the log statement after c.Reconcile
Return(l, err) == Go("returned", [l EXCEPT !.err = err])

\* c.FullWithdrawal(ctx)
FullWithdrawal(l) == [l EXCEPT !.calls = Append(@, Withdrawal)]

\* policies, err := c.PolicyLister.List(...)
ListStep(l, ok, order) ==
    IF ~ok
    THEN Return(l, "ErrList")
    ELSE Go("labels", [l EXCEPT !.policies = order])

\* a failed Labels() that withdraws before returning
LabelsStepWithdraw(l, n) ==
    IF n = <<>>
    THEN Return(FullWithdrawal(l), "ErrLabels")
    ELSE Go("select", [l EXCEPT !.labels = n[1].labels])

\* labels, err := c.NodeSpec.Labels()
LabelsStep(l, n) ==
    IF n = <<>>
    THEN Return(l, "ErrLabels")
    ELSE Go("select", [l EXCEPT !.labels = n[1].labels])

\* the locals once a policy is selected: policies and labels are not read
\* again in Reconcile and are dropped here
Chosen(l, policy) == [l EXCEPT !.policy = policy, !.policies = <<>>, !.labels = {}]

\* no withdrawal when no policy applies
SelectStepKeepOnNone(l) ==
    LET r == PolicySelection(l.labels, l.policies) IN
    IF r.err # "nil"
    THEN Return(FullWithdrawal(l), r.err)
    ELSE IF r.policy = NoPolicy
         THEN Return(l, "nil")
         ELSE Go("annotations", Chosen(l, r.policy))

\* no withdrawal when the selection fails
SelectStepKeepOnError(l) ==
    LET r == PolicySelection(l.labels, l.policies) IN
    IF r.err # "nil"
    THEN Return(l, r.err)
    ELSE IF r.policy = NoPolicy
         THEN Return(FullWithdrawal(l), "nil")
         ELSE Go("annotations", Chosen(l, r.policy))

\* policy, err := PolicySelection(ctx, labels, policies) and the two
\* branches that withdraw
SelectStep(l) ==
    LET r == PolicySelection(l.labels, l.policies) IN
    IF r.err # "nil"
    THEN Return(FullWithdrawal(l), r.err)
    ELSE IF r.policy = NoPolicy
         THEN Return(FullWithdrawal(l), "nil")
         ELSE Go("annotations", Chosen(l, r.policy))

\* a parse failure handled like a selection failure: withdraw, then return
AnnotationsStepWithdraw(l, n) ==
    IF n = <<>>
    THEN Return(l, "ErrAnnotations")
    ELSE LET m == NewAnnotationMap(n[1].annotations) IN
         IF m.err # "nil"
         THEN Return(FullWithdrawal(l), m.err)
         ELSE Go("podcidrs", [l EXCEPT !.annoMap = m.annoMap])

\* annotations, err := c.NodeSpec.Annotations(); annoMap, err := NewAnnotationMap(annotations)
AnnotationsStep(l, n) ==
    IF n = <<>>
    THEN Return(l, "ErrAnnotations")
    ELSE LET m == NewAnnotationMap(n[1].annotations) IN
         IF m.err # "nil"
         THEN Return(l, m.err)
         ELSE Go("podcidrs", [l EXCEPT !.annoMap = m.annoMap])

\* podCIDRs, err := c.NodeSpec.PodCIDRs()
PodCIDRsStep(l, n) ==
    IF n = <<>>
    THEN Return(l, "ErrPodCIDRs")
    ELSE Go("configure", [l EXCEPT !.podCIDRs = n[1].podCIDRs])

\* a state that leaves PodCIDRs unset
ControlPlaneStateNoCIDRs(l, a) ==
    [PodCIDRs |-> <<>>, Annotations |-> l.annoMap, IPv4 |-> a.IPv4, IPv6 |-> a.IPv6]

\* state := &ControlPlaneState{...}
ControlPlaneState(l, a) ==
    [PodCIDRs |-> l.podCIDRs, Annotations |-> l.annoMap, IPv4 |-> a.IPv4, IPv6 |-> a.IPv6]

\* c.BGPMgr.ConfigurePeers(ctx, policy, state), ok is whether the backend accepts
ConfigureStep(l, a, ok) ==
    LET ret    == IF ok THEN "nil" ELSE "ErrBackend"
        called == [l EXCEPT !.calls = Append(@, Call(l.policy, <<ControlPlaneState(l, a)>>, ret))] IN
    Return(called, IF ret # "nil" THEN "ErrConfigure" ELSE "nil")

\* a shutdown that returns without withdrawing
ShutdownStepNoWithdrawal(l) == Go("done", l)

\* a shutdown that withdraws and stays in the loop
ShutdownStepNoReturn(l) == Go("wait", FullWithdrawal(l))

\* case <-ctx.Done() of Run: withdraw and return
ShutdownStep(l) == Go("done", FullWithdrawal(l))

----------------------------------------------------------------------------
(* Controller.Run *)

Goto(t, g) ==
    /\ pc' = [pc EXCEPT ![t] = g.pc]
    /\ loc' = [loc EXCEPT ![t] = g.loc]

\* a loop that starts without the initial signal
RunInitNoEvent(t) ==
    /\ pc[t] = "init"
    /\ pc' = [pc EXCEPT ![t] = "wait"]
    /\ UNCHANGED <<pool, loc, Sig, burst, ctxDone, store, node, life, hubble>>

\* c.Sig.Event(struct{}{}) before the loop
RunInit(t) ==
    /\ pc[t] = "init"
    /\ Event
    /\ pc' = [pc EXCEPT ![t] = "wait"]
    /\ UNCHANGED <<pool, loc, ctxDone, store, node, life, hubble>>

\* select: case <-c.Sig.Sig, entering c.Reconcile
RunRecv(t) ==
    /\ pc[t] = "wait"
    /\ Sig > 0
    /\ Sig' = Sig - 1
    /\ burst' = 0
    /\ pc' = [pc EXCEPT ![t] = "list"]
    /\ UNCHANGED <<pool, loc, ctxDone, store, node, life, hubble>>

\* select: case <-ctx.Done()
RunShutdown(t) ==
    /\ pc[t] = "wait"
    /\ ctxDone
    /\ Goto(t, ShutdownStep(loc[t]))
    /\ UNCHANGED <<pool, Sig, burst, ctxDone, store, node, life, hubble>>

RecList(t) ==
    /\ pc[t] = "list"
    /\ \E ok \in BOOLEAN, order \in Orders(store) : Goto(t, ListStep(loc[t], ok, order))
    /\ UNCHANGED <<pool, Sig, burst, ctxDone, store, node, life, hubble>>

RecLabels(t) ==
    /\ pc[t] = "labels"
    /\ Goto(t, LabelsStep(loc[t], node))
    /\ UNCHANGED <<pool, Sig, burst, ctxDone, store, node, life, hubble>>

RecSelect(t) ==
    /\ pc[t] = "select"
    /\ Goto(t, SelectStep(loc[t]))
    /\ UNCHANGED <<pool, Sig, burst, ctxDone, store, node, life, hubble>>

RecAnnotations(t) ==
    /\ pc[t] = "annotations"
    /\ Goto(t, AnnotationsStep(loc[t], node))
    /\ UNCHANGED <<pool, Sig, burst, ctxDone, store, node, life, hubble>>

RecPodCIDRs(t) ==
    /\ pc[t] = "podcidrs"
    /\ Goto(t, PodCIDRsStep(loc[t], node))
    /\ UNCHANGED <<pool, Sig, burst, ctxDone, store, node, life, hubble>>

RecConfigure(t) ==
    /\ pc[t] = "configure"
    /\ \E a \in Addrs, ok \in BOOLEAN : Goto(t, ConfigureStep(loc[t], a, ok))
    /\ UNCHANGED <<pool, Sig, burst, ctxDone, store, node, life, hubble>>

\* a loop that empties the Signaler after each pass
RunLogResultDrain(t) ==
    /\ pc[t] = "returned"
    /\ Goto(t, Go("wait", NoLocals))
    /\ Sig' = 0
    /\ UNCHANGED <<pool, burst, ctxDone, store, node, life, hubble>>

\* a loop that returns when a pass fails
RunLogResultExitOnError(t) ==
    /\ pc[t] = "returned"
    /\ Goto(t, Go(IF loc[t].err # "nil" THEN "done" ELSE "wait", NoLocals))
    /\ UNCHANGED <<pool, Sig, burst, ctxDone, store, node, life, hubble>>

\* a loop that runs Reconcile again at once when the backend refused
RunLogResultRetry(t) ==
    /\ pc[t] = "returned"
    /\ Goto(t, Go(IF loc[t].err = "ErrConfigure" THEN "list" ELSE "wait", NoLocals))
    /\ UNCHANGED <<pool, Sig, burst, ctxDone, store, node, life, hubble>>

\* Run logs the result of the pass and loops to the select
RunLogResult(t) ==
    /\ pc[t] = "returned"
    /\ Goto(t, Go("wait", NoLocals))
    /\ UNCHANGED <<pool, Sig, burst, ctxDone, store, node, life, hubble>>

----------------------------------------------------------------------------
(* Controller.Stop *)

\* hive calls Stop of a started hook: Stop starts the goroutine that closes
\* the pool and waits in its select
StopCall ==
    /\ pool # {}
    /\ life.stop = "idle"
    /\ life' = [life EXCEPT !.stop = "racing", !.closer = "spawned"]
    /\ UNCHANGED <<pool, pc, loc, Sig, burst, ctxDone, store, node, hubble>>

\* c.workerpool.Close() cancels the context of the tasks ...
CloseCancel ==
    /\ life.closer = "spawned"
    /\ life' = [life EXCEPT !.closer = "waiting"]
    /\ ctxDone' = TRUE
    /\ UNCHANGED <<pool, pc, loc, Sig, burst, store, node, hubble>>

\* a Close that returns without waiting for the tasks
CloseDoneNoWait ==
    /\ life.closer = "waiting"
    /\ life' = [life EXCEPT !.closer = "closed"]
    /\ UNCHANGED <<pool, pc, loc, Sig, burst, ctxDone, store, node, hubble>>

\* ... and returns when every task has returned; close(doneChan) follows
CloseDone ==
    /\ life.closer = "waiting"
    /\ \A t \in pool : pc[t] = "done"
    /\ life' = [life EXCEPT !.closer = "closed"]
    /\ UNCHANGED <<pool, pc, loc, Sig, burst, ctxDone, store, node, hubble>>

\* the deadline of the context given to Stop passes
StopCtxExpire ==
    /\ life.stop = "racing"
    /\ ~life.stopCtxDone
    /\ life' = [life EXCEPT !.stopCtxDone = TRUE]
    /\ UNCHANGED <<pool, pc, loc, Sig, burst, ctxDone, store, node, hubble>>

\* a Stop that waits for the pool whatever its context says
StopSelectNoRace(l) ==
    IF l.closer = "closed" THEN {"nil"} ELSE {}

\* the select of Stop: the cases that are ready and what each returns
StopSelect(l) ==
    (IF l.stopCtxDone THEN {"DeadlineExceeded"} ELSE {}) \cup
    (IF l.closer = "closed" THEN {"nil"} ELSE {})

StopReturn ==
    /\ life.stop = "racing"
    /\ \E r \in StopSelect(life) : life' = [life EXCEPT !.stop = r]
    /\ UNCHANGED <<pool, pc, loc, Sig, burst, ctxDone, store, node, hubble>>

----------------------------------------------------------------------------
(* Specifications *)

\* the three tasks of the pool
Tasks ==
    \/ PolicyWatchEvent
    \/ NodeWatchEvent
    \/ \E t \in Pumps : PumpStop(t)
    \/ \E t \in Loops : RunInit(t)
    \/ \E t \in Loops : RunRecv(t)
    \/ \E t \in Loops : RunShutdown(t)
    \/ \E t \in Loops : RecList(t)
    \/ \E t \in Loops : RecLabels(t)
    \/ \E t \in Loops : RecSelect(t)
    \/ \E t \in Loops : RecAnnotations(t)
    \/ \E t \in Loops : RecPodCIDRs(t)
    \/ \E t \in Loops : RecConfigure(t)
    \/ \E t \in Loops : RunLogResult(t)

\* the controller with its context cancelled at any moment
Next ==
    \/ Start
    \/ Cancel
    \/ Tasks

Spec == Init /\ [][Next]_vars

\* the control loop keeps running: its goroutine is scheduled and the calls
\* it makes return
LoopNext ==
    \E t \in Loops :
        \/ RunInit(t)
        \/ RunRecv(t)
        \/ RunShutdown(t)
        \/ RecList(t)
        \/ RecLabels(t)
        \/ RecSelect(t)
        \/ RecAnnotations(t)
        \/ RecPodCIDRs(t)
        \/ RecConfigure(t)
        \/ RunLogResult(t)

FairSpec == Spec /\ WF_vars(LoopNext)

\* the controller with its context cancelled by Stop
StopNext ==
    \/ Start
    \/ StopCall
    \/ CloseCancel
    \/ CloseDone
    \/ StopCtxExpire
    \/ StopReturn
    \/ Tasks

StopSpec == Init /\ [][StopNext]_vars

----------------------------------------------------------------------------
(* CounterVec / HistogramVec: callers, ticker, clock *)

\* a caller (dropHandler.ProcessFlow, the tests) uses a series
Access(lvs) ==
    /\ vec' = WithLabelValues(vec, lvs, now)
    /\ last' = (lvs :> now) @@ last
    /\ UNCHANGED <<now, agent>>

WithLabelValuesCall == \E lvs \in LabelTuples : Access(lvs)

\* gcTicker fires and the gc goroutine runs one pass
GcTick ==
    /\ vec.gcTicker
    /\ vec' = gc(vec, now)
    /\ UNCHANGED <<now, last, agent>>

\* time passes
TimePasses ==
    /\ now < MaxNow
    /\ now' = now + 1
    /\ UNCHANGED <<vec, last, agent>>

\* a wrapper just built, with or without a ttl; no controller
TTLInit ==
    /\ pool = {}
    /\ pc = <<>>
    /\ loc = <<>>
    /\ Sig = 0
    /\ burst = 0
    /\ ctxDone = FALSE
    /\ store = {}
    /\ node = <<>>
    /\ life = Constructed(FALSE, "kubernetes")
    /\ \E ttl \in TTLs : vec = NewTTLCounterVecWithReconciliation(ttl)
    /\ now = 0
    /\ last = <<>>

TTLNext ==
    \/ WithLabelValuesCall
    \/ GcTick
    \/ TimePasses

TTLSpec == TTLInit /\ [][TTLNext]_vars

\* the ticker keeps firing and the gc goroutine is scheduled
TTLFairSpec == TTLSpec /\ WF_vars(GcTick)

----------------------------------------------------------------------------
(* Properties *)

\* the candidates of a list whose selector matches the labels
Matching(labels, policies) ==
    { i \in 1..Len(policies) : SelectorMatches(policies[i], labels) }

\* a pass that has returned got past listing the policies and reading the
\* labels and ended in the selection, with no policy to go on with
Selected(l) == l.err \notin {"ErrList", "ErrLabels"} /\ l.policy = NoPolicy

RetrievalErrs == {"ErrList", "ErrLabels", "ErrAnnotations", "ErrPodCIDRs"}

\* C1: coalescing law. Whatever number of Signaler.Event calls arrived since
\* the last receive, at most one token is buffered; every receive of the loop
\* answers at least one Event, starts one pass (Reconcile's first step) and
\* leaves no token behind, so a burst of N events gives one pass, not N.
C1_Coalescing ==
    [][\A t \in Loops :
        (pc[t] = "wait" /\ pc'[t] \in ReconcilePcs) =>
            /\ Sig = 1
            /\ burst >= 1
            /\ Sig' = 0
            /\ burst' = 0
            /\ pc'[t] = "list"]_vars

\* a burst of at least two events is pending while the loop waits at its select
C1_Witness ==
    \E t \in Loops : pc[t] = "wait" /\ burst >= 2 /\ Sig = 1

\* C2: PolicySelection on the labels and the listed policies of a pass: one
\* matching policy gives that policy and no error, none gives no policy and
\* no error, two or more give ErrMultiplePolicies and no policy, and every
\* permutation of the list gives the same outcome.
C2_PolicySelection ==
    \A t \in Loops :
        pc[t] = "select" =>
            LET L == loc[t].labels
                P == loc[t].policies
                M == Matching(L, P)
                r == PolicySelection(L, P)
            IN  /\ Cardinality(M) = 1 =>
                    r = [policy |-> P[CHOOSE i \in M : TRUE], err |-> "nil"]
                /\ M = {} => r = [policy |-> NoPolicy, err |-> "nil"]
                /\ Cardinality(M) >= 2 =>
                    r = [policy |-> NoPolicy, err |-> "ErrMultiplePolicies"]
                /\ \A Q \in Orders({ P[i] : i \in 1..Len(P) }) :
                    PolicySelection(L, Q) = r

\* selection is about to run on three policies of which two match
C2_Witness ==
    \E t \in Loops :
        /\ pc[t] = "select"
        /\ loc[t].policies = <<"edge", "bad", "edge-a">>
        /\ loc[t].labels = EdgeA

\* C3: a loop that has returned made a backend call, and the last backend
\* call it made is the full withdrawal ConfigurePeers(nil, nil).
C3_WithdrawalLast ==
    \A t \in Loops :
        pc[t] = "done" =>
            /\ loc[t].calls # <<>>
            /\ loc[t].calls[Len(loc[t].calls)] = Withdrawal

\* the loop has returned after passes ran on a non-empty policy cache
C3_Witness ==
    \E t \in Loops :
        /\ pc[t] = "done"
        /\ ctxDone
        /\ store # {}
        /\ loc[t].calls = <<Withdrawal>>

\* C4: an idle loop makes a backend call only to observe the cancellation:
\* that step is the full withdrawal and ends the loop, and a loop that has
\* ended starts no pass and makes no call, whatever events arrive.
C4_NoPassAfterCancel ==
    [][\A t \in Loops :
        /\ (pc[t] = "wait" /\ loc'[t] # loc[t]) =>
              /\ ctxDone
              /\ pc'[t] = "done"
              /\ loc'[t].calls = <<Withdrawal>>
        /\ pc[t] = "done" => (pc'[t] = "done" /\ loc'[t] = loc[t])]_vars

\* the loop has ended while a watch pump still runs and has signalled since
C4_Witness ==
    \E t \in Loops :
        /\ pc[t] = "done"
        /\ Sig = 1
        /\ burst >= 2
        /\ \E p \in Pumps : pc[p] = "running"

\* C5: with one matching policy and annotations, parsing and PodCIDRs all
\* succeeding, the pass makes one backend call, ConfigurePeers(policy, state):
\* the policy is the one that matches, the state carries the PodCIDRs and the
\* parsed annotations read from the node and the current addresses, no
\* withdrawal is made, and Reconcile returns nil when the backend does.
C5_ConfigureOnce ==
    [][\A t \in Loops :
        /\ (pc[t] = "select" /\ pc'[t] = "annotations") =>
              /\ Cardinality(Matching(loc[t].labels, loc[t].policies)) = 1
              /\ \A i \in Matching(loc[t].labels, loc[t].policies) :
                    loc[t].policies[i] = loc'[t].policy
        /\ (pc[t] = "annotations" /\ pc'[t] = "podcidrs") =>
              loc'[t].annoMap = NewAnnotationMap(node[1].annotations).annoMap
        /\ (pc[t] = "podcidrs" /\ pc'[t] = "configure") =>
              loc'[t].podCIDRs = node[1].podCIDRs
        /\ pc[t] = "configure" => loc[t].calls = <<>>
        /\ (pc[t] = "configure" /\ pc'[t] # "configure") =>
              /\ pc'[t] = "returned"
              /\ Len(loc'[t].calls) = 1
              /\ loc'[t].calls[1].policy = loc[t].policy
              /\ \E a \in Addrs :
                    loc'[t].calls[1].state =
                        << [PodCIDRs    |-> loc[t].podCIDRs,
                            Annotations |-> loc[t].annoMap,
                            IPv4        |-> a.IPv4,
                            IPv6        |-> a.IPv6] >>
              /\ (loc'[t].calls[1].ret = "nil") <=> (loc'[t].err = "nil")]_vars

\* scenario 3: policy "edge" alone matches, PodCIDRs 10.0.1.0/24, no
\* annotations, IPv4 192.0.2.5 and no IPv6; the backend accepted the call
C5_Witness ==
    \E t \in Loops :
        /\ pc[t] = "returned"
        /\ loc[t].err = "nil"
        /\ loc[t].calls =
              << Call("edge",
                      << [PodCIDRs    |-> <<"10.0.1.0/24">>,
                          Annotations |-> {},
                          IPv4        |-> "192.0.2.5",
                          IPv6        |-> ""] >>,
                      "nil") >>

\* C6: a pass that listed the policies and read the labels and found no
\* matching policy has made one backend call, the full withdrawal, and
\* returns nil.
C6_NoPolicyWithdraws ==
    \A t \in Loops :
        ( /\ pc[t] = "returned"
          /\ Selected(loc[t])
          /\ Matching(loc[t].labels, loc[t].policies) = {} ) =>
            /\ loc[t].calls = <<Withdrawal>>
            /\ loc[t].err = "nil"

\* scenario 1: no policy object exists and the pass has returned
C6_Witness ==
    \E t \in Loops :
        /\ pc[t] = "returned"
        /\ Selected(loc[t])
        /\ loc[t].policies = <<>>
        /\ loc[t].calls = <<Withdrawal>>

\* C7: a pass in which two or more policies match returns
\* ErrMultiplePolicies having made one backend call, the full withdrawal; the
\* loop then goes back to its select, where it receives the next signal.
C7_AmbiguousWithdraws ==
    [][\A t \in Loops :
        /\ ( /\ pc'[t] = "returned"
             /\ Selected(loc'[t])
             /\ Cardinality(Matching(loc'[t].labels, loc'[t].policies)) >= 2 ) =>
              /\ loc'[t].calls = <<Withdrawal>>
              /\ loc'[t].err = "ErrMultiplePolicies"
        /\ (pc[t] = "returned" /\ pc'[t] # "returned") => pc'[t] = "wait"
        /\ (pc[t] = "wait" /\ Sig > 0) => ENABLED RunRecv(t)]_vars

\* scenario 2: policies "edge" and "edge-a" both select the node's labels
C7_Witness ==
    \E t \in Loops :
        /\ pc[t] = "returned"
        /\ loc[t].err = "ErrMultiplePolicies"
        /\ loc[t].labels = EdgeA
        /\ Cardinality(Matching(loc[t].labels, loc[t].policies)) = 2

\* C8: when a policy is selected and the node's annotations do not parse,
\* the pass ends there: Reconcile returns an error and the pass has made no
\* backend call, neither a configuration nor a withdrawal.
C8_MalformedAnnotation ==
    [][\A t \in Loops :
        ( /\ pc[t] = "annotations"
          /\ pc'[t] # "annotations"
          /\ node # <<>>
          /\ NewAnnotationMap(node[1].annotations).err # "nil" ) =>
            /\ pc'[t] = "returned"
            /\ loc'[t].err = "ErrParse"
            /\ loc'[t].calls = <<>>]_vars

\* a pass has returned on a malformed annotation with a policy selected
C8_Witness ==
    \E t \in Loops :
        /\ pc[t] = "returned"
        /\ loc[t].err = "ErrParse"
        /\ loc[t].policy # NoPolicy
        /\ loc[t].calls = <<>>

\* C9: a read of the node that fails ends the pass with a retrieval error;
\* a pass that ends with a retrieval error has made no backend call; after a
\* pass the loop is back at its select with fresh locals, and the next
\* receive starts Reconcile at its first step.
C9_RetrievalError ==
    [][\A t \in Loops :
        /\ ( /\ pc[t] \in {"labels", "annotations", "podcidrs"}
             /\ pc'[t] # pc[t]
             /\ node = <<>> ) =>
              (pc'[t] = "returned" /\ loc'[t].err \in RetrievalErrs)
        /\ (pc'[t] = "returned" /\ loc'[t].err \in RetrievalErrs) =>
              loc'[t].calls = <<>>
        /\ (pc[t] = "returned" /\ pc'[t] # "returned") =>
              (pc'[t] = "wait" /\ loc'[t] = NoLocals)
        /\ (pc[t] = "wait" /\ pc'[t] \in ReconcilePcs) => pc'[t] = "list"]_vars

\* the node object vanished after a policy was selected: PodCIDRs() failed
C9_Witness ==
    \E t \in Loops :
        /\ pc[t] = "returned"
        /\ loc[t].err = "ErrPodCIDRs"
        /\ loc[t].policy # NoPolicy
        /\ loc[t].calls = <<>>

\* C10: at most one task is inside Reconcile.
C10_OneInFlight ==
    Cardinality({ t \in Loops : pc[t] \in ReconcilePcs }) <= 1

\* a pass is in flight after cancellation, with a new signal already pending
C10_Witness ==
    \E t \in Loops :
        /\ pc[t] \in ReconcilePcs
        /\ ctxDone
        /\ Sig = 1

\* C11: no change is lost. Under FairSpec, whenever Signaler.Event has been
\* called since the last receive (also while a pass is in flight), the loop
\* later receives from the Signaler, which starts a pass at Reconcile's
\* first step, unless the context is cancelled.
C11_NoChangeLost ==
    (burst >= 1) ~> (burst = 0 \/ ctxDone)

\* an event arrived while a pass is in flight and the context is live
C11_Witness ==
    \E t \in Loops :
        /\ pc[t] \in ReconcilePcs
        /\ Sig = 1
        /\ burst >= 1
        /\ ~ctxDone

\* C12: the step of Run before its loop leaves a token in the Signaler, and
\* under FairSpec a loop that has started gets to its first pass, also when
\* no watch event ever happens, unless the context is cancelled.
C12_InitialSignal ==
    /\ [][\A t \in Loops :
            (pc[t] = "init" /\ pc'[t] # "init") =>
                (pc'[t] = "wait" /\ Sig' = 1 /\ burst' >= 1)]_vars
    /\ (\E t \in Loops : pc[t] = "init") ~>
            ((\E t \in Loops : pc[t] = "list") \/ ctxDone)

\* the first pass has begun on empty caches, the initial token consumed
C12_Witness ==
    \E t \in Loops :
        /\ pc[t] = "list"
        /\ Sig = 0
        /\ burst = 0
        /\ store = {}
        /\ node = <<>>
        /\ ~ctxDone

\* C13: the Signaler holds zero or one token; every caller of Event (the two
\* watch callbacks, Run) can always take its step, after which one token is
\* pending, and when one was pending already the Signaler is unchanged.
C13_EventNeverBlocks ==
    [][/\ Sig \in {0, 1}
       /\ Sig' \in {0, 1}
       /\ (PolicyWatchEvent \/ NodeWatchEvent \/ \E t \in Loops : RunInit(t)) =>
              (Sig' = 1 /\ (Sig = 1 => Sig' = Sig))
       /\ (pool # {} /\ pc["policy-informer"] = "running") => ENABLED PolicyWatchEvent
       /\ (pool # {} /\ pc["nodespecer"] = "running") => ENABLED NodeWatchEvent
       /\ \A t \in Loops : pc[t] = "init" => ENABLED RunInit(t)]_vars

\* Event was called with a token pending, while the loop is not receiving
C13_Witness ==
    \E t \in Loops :
        /\ pc[t] = "returned"
        /\ Sig = 1
        /\ burst >= 2

\* C14: after a pass, whatever Reconcile returned, the loop is back at its
\* select; the loop returns only from its select and only when the context
\* is cancelled.
C14_ErrorsDoNotStop ==
    [][\A t \in Loops :
        /\ (pc[t] = "returned" /\ pc'[t] # "returned") => pc'[t] = "wait"
        /\ (pc[t] # "done" /\ pc'[t] = "done") => (ctxDone /\ pc[t] = "wait")]_vars

\* the backend refused the configuration and the context is live
C14_Witness ==
    \E t \in Loops :
        /\ pc[t] = "returned"
        /\ loc[t].err = "ErrConfigure"
        /\ ~ctxDone

\* C15: Stop returns from whichever of its two cases is ready: nil only
\* once the workerpool's Close has returned, the context's error only once
\* the stop context is done; while Stop waits and either case is ready it
\* can return, and with only the context done it returns the error even
\* though tasks are still running.
C15_StopRace ==
    [][/\ (life.stop = "racing" /\ life'.stop # "racing") =>
            /\ life'.stop \in {"nil", "DeadlineExceeded"}
            /\ life'.stop = "nil" => life.closer = "closed"
            /\ life'.stop = "DeadlineExceeded" => life.stopCtxDone
       /\ (life.stop = "racing" /\ (life.closer = "closed" \/ life.stopCtxDone)) =>
            ENABLED StopReturn
       /\ (life.stop = "racing" /\ life.stopCtxDone /\ life.closer # "closed") =>
            StopSelect(life) = {"DeadlineExceeded"}
       /\ life'.closer = "closed" => \A t \in pool : pc'[t] = "done"]_vars

\* Stop gave up on its context while a task was still running
C15_Witness ==
    /\ life.stop = "DeadlineExceeded"
    /\ life.closer # "closed"
    /\ \E t \in pool : pc[t] # "done"

\* the candidates of a list whose selector converts
Convertible(policies) == SelectSeq(policies, LAMBDA p : NodeSelector(p).valid)

Idle(lvs) == lvs \in DOMAIN last /\ last[lvs] + vec.ttl < now

\* C17: with a ttl, a series whose latest WithLabelValues call is more than
\* the ttl ago is eventually gone from the exported series and from the
\* cache, unless it is accessed again: gc deletes only the series a cache
\* record names, so an idle exported series is always named by a record, and
\* it is gone in the end; and every WithLabelValues call leaves its series
\* exported and recorded.
C17_IdleSeriesRemoved ==
    /\ [](\A lvs \in LabelTuples :
            (vec.ttl > 0 /\ lvs \in vec.series /\ Idle(lvs)) =>
                \E k \in DOMAIN vec.cache : vec.cache[k].labels = lvs)
    /\ \A lvs \in LabelTuples :
        (vec.ttl > 0 /\ lvs \in vec.series /\ Idle(lvs)) ~>
            (lvs \notin vec.series \/ ~Idle(lvs))
    /\ [][\A lvs \in LabelTuples :
            (vec.ttl > 0 /\ Access(lvs)) =>
                (lvs \in vec'.series /\ CacheKey(lvs) \in DOMAIN vec'.cache)]_vars

\* C18: with a ttl, every WithLabelValues call sets the record of its series
\* to the current time, and a series leaves the exported ones only when its
\* latest WithLabelValues call is more than the ttl ago.
C18_UsedSeriesKept ==
    [][vec.ttl > 0 =>
        \A lvs \in LabelTuples :
            /\ Access(lvs) =>
                /\ vec'.cache[CacheKey(lvs)] = [timestamp |-> now, labels |-> lvs]
                /\ lvs \in vec'.series
            /\ (lvs \in vec.series /\ lvs \notin vec'.series) => Idle(lvs)]_vars

\* a series used at the start is still exported at the end of the clock, its
\* latest use within the ttl, while another series has been removed
C18_Witness ==
    /\ vec.ttl > 0
    /\ now = MaxNow
    /\ <<"a0", "a1">> \in vec.series
    /\ ~Idle(<<"a0", "a1">>)
    /\ <<"b0", "b1">> \in DOMAIN last
    /\ last[<<"b0", "b1">>] = 0
    /\ <<"b0", "b1">> \notin vec.series

\* C19: without a ttl the cache stays empty, there is no ticker and so no
\* gc, and every series ever accessed is exported, whatever time has passed.
C19_NoTTLKeepsAll ==
    vec.ttl = 0 =>
        /\ DOMAIN vec.cache = {}
        /\ ~vec.gcTicker
        /\ ~ENABLED GcTick
        /\ vec.series = DOMAIN last

\* without a ttl, two series used at the start are exported long after
C19_Witness ==
    /\ vec.ttl = 0
    /\ now > 2
    /\ Cardinality(vec.series) >= 2
    /\ \A lvs \in vec.series : last[lvs] = 0

\* C20: when the controller is disabled NewController returns no controller
\* and no error and registers no hook; no task is ever started, Stop is
\* never called, the context is never cancelled and no backend call is made.
C20_DisabledIsInert ==
    ~life.enabled =>
        /\ ~life.controller
        /\ life.err = "nil"
        /\ life.hooks = {}
        /\ pool = {}
        /\ DOMAIN pc = {}
        /\ DOMAIN loc = {}
        /\ life.stop = "idle"
        /\ life.closer = "idle"
        /\ ~ctxDone

\* the controller was constructed disabled
C20_Witness ==
    /\ ~life.enabled
    /\ ~life.controller
    /\ life.hooks = {}

\* C22: a pass makes at most one backend call; a backend call is made only
\* inside a pass or in the select's cancellation case; after a pass, also
\* one the backend refused, the loop goes to its select without a call, and
\* it enters Reconcile from there only by taking the token of the Signaler.
C22_NoRetry ==
    [][\A t \in Loops :
        /\ Len(loc'[t].calls) <= 1
        /\ (loc'[t].calls # loc[t].calls /\ loc'[t].calls # <<>>) =>
              /\ loc[t].calls = <<>>
              /\ pc[t] \in ReconcilePcs \/ (pc[t] = "wait" /\ ctxDone)
        /\ (pc[t] = "returned" /\ pc'[t] # "returned") =>
              /\ pc'[t] = "wait"
              /\ loc'[t].calls = <<>>
        /\ (pc[t] = "wait" /\ pc'[t] # "wait") =>
              \/ pc'[t] = "list" /\ Sig = 1 /\ Sig' = 0 /\ loc'[t].calls = <<>>
              \/ pc'[t] = "done" /\ ctxDone]_vars

\* the backend refused the one call of the pass, and no token is pending
C22_Witness ==
    \E t \in Loops :
        /\ pc[t] = "returned"
        /\ loc[t].err = "ErrConfigure"
        /\ Len(loc[t].calls) = 1
        /\ loc[t].calls[1].ret = "ErrBackend"
        /\ Sig = 0
        /\ ~ctxDone

\* C23: when Stop has returned nil the three tasks have returned and the
\* loop's last backend call is the withdrawal of its cancellation case;
\* while Stop waits with its context done and a task still running, it can
\* return the context's error.
C23_StopNilMeansDone ==
    /\ life.stop = "nil" =>
        /\ pool = StartTasks
        /\ \A t \in pool : pc[t] = "done"
        /\ \A t \in Loops : loc[t].calls = <<Withdrawal>>
    /\ (life.stop = "racing" /\ life.stopCtxDone /\ \E t \in pool : pc[t] # "done") =>
        StopSelect(life) = {"DeadlineExceeded"}

\* Stop returned nil after the pool closed
C23_Witness ==
    /\ life.stop = "nil"
    /\ life.closer = "closed"
    /\ \A t \in pool : pc[t] = "done"

\* C24: with a ttl, the label values of a WithLabelValues call have a cache
\* key that no other label values passed so far have, and the call leaves
\* the record of every other series as it was.
C24_KeyUnique ==
    [][vec.ttl > 0 =>
        \A lvs \in LabelTuples :
            Access(lvs) =>
                /\ \A other \in (DOMAIN last) \ {lvs} : CacheKey(other) # CacheKey(lvs)
                /\ \A k \in DOMAIN vec.cache :
                      vec.cache[k].labels # lvs =>
                          (k \in DOMAIN vec'.cache /\ vec'.cache[k] = vec.cache[k])]_vars

\* C21: with a ttl, the cache holds one record per exported series: the
\* series the records name are the exported ones, and there are as many
\* records as series.
C21_CacheAgrees ==
    vec.ttl > 0 =>
        /\ { vec.cache[k].labels : k \in DOMAIN vec.cache } = vec.series
        /\ Cardinality(DOMAIN vec.cache) = Cardinality(vec.series)
====
